---- MODULE Spec2Model ----
(***************************************************************************)
(* Coordinate transforms and per-window scale negotiation of sommelier     *)
(* (sommelier-transform.cc).                                               *)
(*                                                                         *)
(* Scale factors are C doubles.  Every double the program holds in a scale *)
(* field is either a configuration value or the quotient width/logical     *)
(* computed by sl_transform_try_window_scale, so a scale factor is kept as *)
(* the pair [n, d] standing for fl(n/d), the IEEE-754 binary64 value       *)
(* nearest to n/d.  Products and quotients of an integer with such a value *)
(* are computed with their binary64 rounding (DblErr, MulSnaps, DivSnaps), *)
(* so that x / s and x * s differ from the rational result exactly where   *)
(* they do in the compiled code.                                           *)
(***************************************************************************)
EXTENDS Integers, Sequences, FiniteSets, TLC

\* ------------------------------------------------------------------------
\* Bounds of the model
\* ------------------------------------------------------------------------
\* requested window sizes are MinDim..1 and MaxDim-1..MaxDim
MaxDim == 9
\* integer coordinates handed to the transforms are -MaxCoord..MaxCoord
MaxCoord == 2

MinDim == 0 - 1

\* ------------------------------------------------------------------------
\* binary64 arithmetic on fl(n/d)
\* ------------------------------------------------------------------------
Abs(x) == IF x < 0 THEN 0 - x ELSE x

Sgn(x) == IF x < 0 THEN 0 - 1 ELSE 1

Pow2(k) == 2 ^ k

\* a double: the value of n/d rounded to binary64
Dbl(n, d) == [n |-> n, d |-> d]

\* the doubles fl(a.n/a.d) and fl(b.n/b.d) are the same value
DblEq(a, b) == a.n * b.d = b.n * a.d

\* the double a multiplied by the power of two p (exact in binary64)
DblScale(a, p) == Dbl(a.n * p, a.d)

\* floor(log2(a/b)) for a, b > 0
RECURSIVE FloorLog2(_, _)
FloorLog2(a, b) ==
  IF a >= b
  THEN (IF a >= 2 * b THEN 1 + FloorLog2(a, 2 * b) ELSE 0)
  ELSE FloorLog2(2 * a, b) - 1

\* 2^k mod d
RECURSIVE Pow2Mod(_, _)
Pow2Mod(k, d) == IF k = 0 THEN 1 % d ELSE (2 * Pow2Mod(k - 1, d)) % d

\* a/b is a power of two
IsPow2(a, b) ==
  LET g == FloorLog2(a, b)
  IN IF g >= 0 THEN a = b * Pow2(g) ELSE a * Pow2(0 - g) = b

\* binary64 keeps 53 significant bits: fl(n/d) = (n*2^k + e) / (d*2^k) with
\* k = DblExp(n, d) and e = DblErr(n, d), |e| <= d/2
DblExp(n, d) == 52 - FloorLog2(n, d)

DblErr(n, d) ==
  LET R == ((n % d) * Pow2Mod(DblExp(n, d), d)) % d
  IN IF 2 * R < d THEN 0 - R ELSE d - R

\* x > 0, T = tn/td an integer or half-integer with x*n/d = T: the double
\* product fl(x * fl(n/d)) is exactly T (the rounding error of fl(n/d) is
\* absorbed by the rounding of the product)
MulSnaps(x, n, d, tn, td) ==
  LET e == DblErr(n, d)
      k == DblExp(n, d)
      b == IF e < 0 /\ IsPow2(tn, td) THEN 1 ELSE 0
      a == 53 + b - FloorLog2(tn, td)
  IN IF e = 0 THEN TRUE
     ELSE IF k >= a THEN x * Abs(e) <= d * Pow2(k - a)
     ELSE x * Abs(e) * Pow2(a - k) <= d

\* x > 0, T = tn/td an integer or half-integer with x*d/n = T: the double
\* quotient fl(x / fl(n/d)) is exactly T
DivSnaps(x, n, d, tn, td) ==
  LET e == DblErr(n, d)
      k == DblExp(n, d)
      b == IF e > 0 /\ IsPow2(tn, td) THEN 1 ELSE 0
      a == 53 + b - FloorLog2(tn, td) - (IF td = 2 THEN 1 ELSE 0)
      c == IF a < k THEN a ELSE k
      L == tn * Abs(e) * Pow2(a - c)
      N == n * Pow2(k - c)
  IN IF e = 0 THEN TRUE
     ELSE IF e > 0 THEN L <= N ELSE L < N

\* trunc(x * s) for the double s, as an integer
MulTrunc(x, s) ==
  IF x = 0 \/ s.n = 0 THEN 0
  ELSE LET ax == Abs(x)
           A == ax * s.n
           I == A \div s.d
       IN Sgn(x) * (IF A % s.d = 0 /\ DblErr(s.n, s.d) < 0
                       /\ ~MulSnaps(ax, s.n, s.d, I, 1)
                    THEN I - 1 ELSE I)

\* lround(x * s): round half away from zero
MulRound(x, s) ==
  IF x = 0 \/ s.n = 0 THEN 0
  ELSE LET ax == Abs(x)
           A == ax * s.n
           I == (2 * A + s.d) \div (2 * s.d)
           onHalf == (2 * A) % s.d = 0 /\ ((2 * A) \div s.d) % 2 = 1
       IN Sgn(x) * (IF onHalf /\ DblErr(s.n, s.d) < 0
                       /\ ~MulSnaps(ax, s.n, s.d, 2 * I - 1, 2)
                    THEN I - 1 ELSE I)

\* trunc(x / s) for the double s > 0
DivTrunc(x, s) ==
  IF x = 0 THEN 0
  ELSE LET ax == Abs(x)
           A == ax * s.d
           I == A \div s.n
       IN Sgn(x) * (IF A % s.n = 0 /\ DblErr(s.n, s.d) > 0
                       /\ ~DivSnaps(ax, s.n, s.d, I, 1)
                    THEN I - 1 ELSE I)

\* ceil(x / s) for the double s > 0
DivCeil(x, s) ==
  IF x <= 0 THEN 0 - DivTrunc(0 - x, s)
  ELSE LET A == x * s.d
           I == (A + s.n - 1) \div s.n
       IN IF A % s.n = 0 /\ DblErr(s.n, s.d) < 0
             /\ ~DivSnaps(x, s.n, s.d, I, 1)
          THEN I + 1 ELSE I

\* round-to-nearest-even choice between the integers I and I + 1
EvenOf(I) == IF I % 2 = 0 THEN I ELSE I + 1

\* wl_fixed_from_double(wl_fixed_to_double(f) * s): the fixed-point value f,
\* in units of 1/256, becomes the double f/256 exactly, and the magic-number
\* sum of wl_fixed_from_double rounds the product to the nearest 1/256, ties
\* to even
MulFixed(f, s) ==
  IF f = 0 \/ s.n = 0 THEN 0
  ELSE LET af == Abs(f)
           A == af * s.n
           I == A \div s.d
           onHalf == (2 * A) % s.d = 0 /\ ((2 * A) \div s.d) % 2 = 1
       IN Sgn(f) * (IF onHalf
                    THEN (IF MulSnaps(af, s.n, s.d, 2 * I + 1, 2) THEN EvenOf(I)
                          ELSE IF DblErr(s.n, s.d) > 0 THEN I + 1 ELSE I)
                    ELSE (2 * A + s.d) \div (2 * s.d))

\* wl_fixed_from_double(wl_fixed_to_double(f) / s)
DivFixed(f, s) ==
  IF f = 0 THEN 0
  ELSE LET af == Abs(f)
           A == af * s.d
           I == A \div s.n
           onHalf == (2 * A) % s.n = 0 /\ ((2 * A) \div s.n) % 2 = 1
       IN Sgn(f) * (IF onHalf
                    THEN (IF DivSnaps(af, s.n, s.d, 2 * I + 1, 2) THEN EvenOf(I)
                          ELSE IF DblErr(s.n, s.d) > 0 THEN I ELSE I + 1)
                    ELSE (2 * A + s.n) \div (2 * s.n))

\* ------------------------------------------------------------------------
\* State
\* ------------------------------------------------------------------------
VARIABLES
  ctx,      \* struct sl_context: the process-wide scale configuration
  surface,  \* struct sl_host_surface: the per-surface override record
  last      \* the last call made: its name, arguments and results

vars == <<ctx, surface, last>>

\* a null sl_host_surface pointer
NoSurface == [null |-> TRUE]

IsNull(s) == "null" \in DOMAIN s

\* the scale configurations the model starts from
Context(direct, scale, sx, sy) ==
  [use_direct_scale |-> direct, scale |-> scale,
   xdg_scale_x |-> sx, xdg_scale_y |-> sy]

Contexts ==
  { Context(FALSE, Dbl(1, 1), Dbl(1, 1), Dbl(1, 1)),
    Context(FALSE, Dbl(2, 1), Dbl(1, 1), Dbl(1, 1)),
    Context(FALSE, Dbl(3, 2), Dbl(5, 4), Dbl(2, 1)),
    Context(TRUE, Dbl(1, 1), Dbl(1, 1), Dbl(1, 1)),
    Context(TRUE, Dbl(2, 1), Dbl(1, 1), Dbl(1, 1)),
    Context(TRUE, Dbl(1, 1), Dbl(5, 4), Dbl(5, 4)),
    Context(TRUE, Dbl(2, 1), Dbl(3, 2), Dbl(2, 1)) }

\* a surface as the surface code creates it: no override
NewSurface ==
  [has_own_scale |-> 0,
   xdg_scale_x |-> Dbl(0, 1), xdg_scale_y |-> Dbl(0, 1),
   scale_round_on_x |-> FALSE, scale_round_on_y |-> FALSE,
   cached_logical_width |-> 0, cached_logical_height |-> 0]

Dims == (MinDim..1) \cup ((MaxDim - 1)..MaxDim)

Coords == (0 - MaxCoord)..MaxCoord

\* the smallest and largest coordinate of a legacy damage rectangle
MIN_SIZE == 0 - 214748364

MAX_SIZE == 214748364

\* buffer scales and contents scales: powers of two, so that their product
\* with a scale factor is exact in binary64
BufferScales == {1, 2}

ContentsScales == {1, 2}

\* wl_fixed_t values (units of 1/256): half pixels and a single unit
FixedCoords == {0 - 128, 1, 128}

\* the coordinates of the specification of all entry points
UnitCoords == {0 - 1, 0, 1}

\* the extents <<x1, x2>> of the small damage rectangles
UnitExtents == {0 - 1, 0} \X {0, 1}

Max(a, b) == IF a > b THEN a ELSE b

Min(a, b) == IF a < b THEN a ELSE b

Call(op, withSurface, args, res) ==
  [op |-> op, surf |-> withSurface, args |-> args, res |-> res]

Init ==
  /\ ctx \in Contexts
  /\ surface = NewSurface
  /\ last = Call("none", FALSE, <<>>, <<>>)

\* ------------------------------------------------------------------------
\* The transforms
\* ------------------------------------------------------------------------
\* as sl_transform_get_scale_factors, the override's axes exchanged
get_scale_factors_swapped(c, s) ==
  IF c.use_direct_scale /\ ~IsNull(s) /\ s.has_own_scale = 1
  THEN <<s.xdg_scale_y, s.xdg_scale_x>>
  ELSE <<c.xdg_scale_x, c.xdg_scale_y>>

sl_transform_get_scale_factors(c, s) ==
  IF c.use_direct_scale /\ ~IsNull(s) /\ s.has_own_scale = 1
  THEN <<s.xdg_scale_x, s.xdg_scale_y>>
  ELSE <<c.xdg_scale_x, c.xdg_scale_y>>

\* as sl_transform_direct_to_guest, each axis reading the other axis's flag
direct_to_guest_flags_swapped(c, s, x, y) ==
  LET f == sl_transform_get_scale_factors(c, s)
  IN <<IF ~IsNull(s) /\ s.scale_round_on_y
       THEN MulRound(x, f[1]) ELSE MulTrunc(x, f[1]),
       IF ~IsNull(s) /\ s.scale_round_on_x
       THEN MulRound(y, f[2]) ELSE MulTrunc(y, f[2])>>

sl_transform_direct_to_guest(c, s, x, y) ==
  LET f == sl_transform_get_scale_factors(c, s)
  IN <<IF ~IsNull(s) /\ s.scale_round_on_x
       THEN MulRound(x, f[1]) ELSE MulTrunc(x, f[1]),
       IF ~IsNull(s) /\ s.scale_round_on_y
       THEN MulRound(y, f[2]) ELSE MulTrunc(y, f[2])>>

sl_transform_direct_to_host(c, s, x, y) ==
  LET f == sl_transform_get_scale_factors(c, s)
  IN <<DivTrunc(x, f[1]), DivTrunc(y, f[2])>>

sl_transform_host_to_guest(c, s, x, y) ==
  IF c.use_direct_scale
  THEN sl_transform_direct_to_guest(c, s, x, y)
  ELSE <<MulTrunc(x, c.scale), MulTrunc(y, c.scale)>>

\* as sl_transform_guest_to_host, legacy mode dividing by the direct factors
guest_to_host_legacy_by_xdg(c, s, x, y) ==
  IF c.use_direct_scale
  THEN sl_transform_direct_to_host(c, s, x, y)
  ELSE <<DivTrunc(x, c.xdg_scale_x), DivTrunc(y, c.xdg_scale_y)>>

sl_transform_guest_to_host(c, s, x, y) ==
  IF c.use_direct_scale
  THEN sl_transform_direct_to_host(c, s, x, y)
  ELSE <<DivTrunc(x, c.scale), DivTrunc(y, c.scale)>>

sl_transform_direct_axis_scale(c, s, axis) ==
  LET f == sl_transform_get_scale_factors(c, s)
  IN IF axis = 0 THEN f[2] ELSE f[1]

sl_transform_direct_to_host_damage(x, y, scale_x, scale_y) ==
  <<DivTrunc(x, scale_x), DivTrunc(y, scale_y)>>

sl_transform_direct_to_guest_fixed_axis(c, s, coord, axis) ==
  MulFixed(coord, sl_transform_direct_axis_scale(c, s, axis))

sl_transform_direct_to_guest_fixed(c, s, x, y) ==
  LET f == sl_transform_get_scale_factors(c, s)
  IN <<MulFixed(x, f[1]), MulFixed(y, f[2])>>

sl_transform_direct_to_host_fixed_axis(c, s, coord, axis) ==
  DivFixed(coord, sl_transform_direct_axis_scale(c, s, axis))

sl_transform_direct_to_host_fixed(c, s, x, y) ==
  LET f == sl_transform_get_scale_factors(c, s)
  IN <<DivFixed(x, f[1]), DivFixed(y, f[2])>>

\* as sl_transform_viewport_scale, only negative dimensions raised to 1
viewport_scale_floor_negative(c, s, contents_scale, width, height) ==
  IF c.use_direct_scale
  THEN LET host == sl_transform_direct_to_host(c, s, width, height)
       IN <<IF host[1] < 0 THEN 1 ELSE host[1],
            IF host[2] < 0 THEN 1 ELSE host[2], TRUE>>
  ELSE LET scale == DblScale(c.scale, contents_scale)
       IN <<DivCeil(width, scale), DivCeil(height, scale), TRUE>>

\* as sl_transform_viewport_scale, without the floor of one pixel
viewport_scale_no_floor(c, s, contents_scale, width, height) ==
  IF c.use_direct_scale
  THEN LET host == sl_transform_direct_to_host(c, s, width, height)
       IN <<host[1], host[2], TRUE>>
  ELSE LET scale == DblScale(c.scale, contents_scale)
       IN <<DivCeil(width, scale), DivCeil(height, scale), TRUE>>

\* returns <<width, height, do_viewport>>
sl_transform_viewport_scale(c, s, contents_scale, width, height) ==
  IF c.use_direct_scale
  THEN LET host == sl_transform_direct_to_host(c, s, width, height)
       IN <<IF host[1] <= 0 THEN 1 ELSE host[1],
            IF host[2] <= 0 THEN 1 ELSE host[2], TRUE>>
  ELSE LET scale == DblScale(c.scale, contents_scale)
       IN <<DivCeil(width, scale), DivCeil(height, scale), TRUE>>

\* as sl_transform_damage_coord, the legacy bottom-right corner cut toward
\* zero like the top-left one
damage_coord_truncates_corner(c, s, bsx, bsy, x1, y1, x2, y2) ==
  IF c.use_direct_scale
  THEN LET f == sl_transform_get_scale_factors(c, s)
           scalex == DblScale(f[1], bsx)
           scaley == DblScale(f[2], bsy)
           p1 == sl_transform_direct_to_host_damage(x1, y1, scalex, scaley)
           p2 == sl_transform_direct_to_host_damage(x2, y2, scalex, scaley)
       IN <<p1[1], p1[2], p2[1], p2[2]>>
  ELSE LET sx == DblScale(c.scale, bsx)
           sy == DblScale(c.scale, bsy)
       IN <<DivTrunc(Max(MIN_SIZE, x1 - 1), sx),
            DivTrunc(Max(MIN_SIZE, y1 - 1), sy),
            DivTrunc(Min(x2 + 1, MAX_SIZE), sx),
            DivTrunc(Min(y2 + 1, MAX_SIZE), sy)>>

\* as sl_transform_damage_coord, the direct-mode rectangle outset by one pixel
\* like the legacy one
damage_coord_outset_direct(c, s, bsx, bsy, x1, y1, x2, y2) ==
  IF c.use_direct_scale
  THEN LET f == sl_transform_get_scale_factors(c, s)
           scalex == DblScale(f[1], bsx)
           scaley == DblScale(f[2], bsy)
           p1 == sl_transform_direct_to_host_damage(x1 - 1, y1 - 1, scalex,
                                                    scaley)
           p2 == sl_transform_direct_to_host_damage(x2 + 1, y2 + 1, scalex,
                                                    scaley)
       IN <<p1[1], p1[2], p2[1], p2[2]>>
  ELSE LET sx == DblScale(c.scale, bsx)
           sy == DblScale(c.scale, bsy)
       IN <<DivTrunc(Max(MIN_SIZE, x1 - 1), sx),
            DivTrunc(Max(MIN_SIZE, y1 - 1), sy),
            DivCeil(Min(x2 + 1, MAX_SIZE), sx),
            DivCeil(Min(y2 + 1, MAX_SIZE), sy)>>

\* bsx, bsy: buffer_scalex, buffer_scaley; returns <<x1, y1, x2, y2>>
sl_transform_damage_coord(c, s, bsx, bsy, x1, y1, x2, y2) ==
  IF c.use_direct_scale
  THEN LET f == sl_transform_get_scale_factors(c, s)
           scalex == DblScale(f[1], bsx)
           scaley == DblScale(f[2], bsy)
           p1 == sl_transform_direct_to_host_damage(x1, y1, scalex, scaley)
           p2 == sl_transform_direct_to_host_damage(x2, y2, scalex, scaley)
       IN <<p1[1], p1[2], p2[1], p2[2]>>
  ELSE LET sx == DblScale(c.scale, bsx)
           sy == DblScale(c.scale, bsy)
       IN <<DivTrunc(Max(MIN_SIZE, x1 - 1), sx),
            DivTrunc(Max(MIN_SIZE, y1 - 1), sy),
            DivCeil(Min(x2 + 1, MAX_SIZE), sx),
            DivCeil(Min(y2 + 1, MAX_SIZE), sy)>>

sl_transform_host_to_guest_fixed(c, s, x, y) ==
  IF c.use_direct_scale
  THEN sl_transform_direct_to_guest_fixed(c, s, x, y)
  ELSE <<MulFixed(x, c.scale), MulFixed(y, c.scale)>>

sl_transform_host_to_guest_fixed_axis(c, s, coord, axis) ==
  IF c.use_direct_scale
  THEN sl_transform_direct_to_guest_fixed_axis(c, s, coord, axis)
  ELSE MulFixed(coord, c.scale)

sl_transform_guest_to_host_fixed(c, s, x, y) ==
  IF c.use_direct_scale
  THEN sl_transform_direct_to_host_fixed(c, s, x, y)
  ELSE <<DivFixed(x, c.scale), DivFixed(y, c.scale)>>

sl_transform_guest_to_host_fixed_axis(c, s, coord, axis) ==
  IF c.use_direct_scale
  THEN sl_transform_direct_to_host_fixed_axis(c, s, coord, axis)
  ELSE DivFixed(coord, c.scale)

\* as sl_transform_output_dimensions, direct mode scaling by the direct
\* factors
output_dimensions_by_mode(c, width, height) ==
  IF c.use_direct_scale
  THEN <<MulTrunc(width, c.xdg_scale_x), MulTrunc(height, c.xdg_scale_y)>>
  ELSE <<MulTrunc(width, c.scale), MulTrunc(height, c.scale)>>

sl_transform_output_dimensions(c, width, height) ==
  <<MulTrunc(width, c.scale), MulTrunc(height, c.scale)>>

\* ------------------------------------------------------------------------
\* Negotiation
\* ------------------------------------------------------------------------
\* as sl_transform_reset_surface_scale, the rounding flags left in place
reset_keeps_flags(c, s) ==
  [s EXCEPT !.has_own_scale = 0,
            !.xdg_scale_x = Dbl(0, 1), !.xdg_scale_y = Dbl(0, 1)]

\* as sl_transform_reset_surface_scale, the scales left in place
reset_keeps_scales(c, s) ==
  [s EXCEPT !.has_own_scale = 0,
            !.scale_round_on_x = FALSE, !.scale_round_on_y = FALSE]

sl_transform_reset_surface_scale(c, s) ==
  [s EXCEPT !.has_own_scale = 0,
            !.scale_round_on_x = FALSE, !.scale_round_on_y = FALSE,
            !.xdg_scale_x = Dbl(0, 1), !.xdg_scale_y = Dbl(0, 1)]

\* the window size in logical units, by the global scaling factors
GlobalLogicalSize(c, width_in_pixels, height_in_pixels) ==
  sl_transform_guest_to_host(c, NoSurface, width_in_pixels, height_in_pixels)

\* the logical size taken back to pixels, by the global scaling factors
GlobalRoundTrip(c, logical) ==
  sl_transform_host_to_guest(c, NoSurface, logical[1], logical[2])

\* as InstallOwnScale, the vertical scale taken from the logical width
install_own_scale_one_logical(s, width_in_pixels, height_in_pixels, logical) ==
  [s EXCEPT !.has_own_scale = 1,
            !.xdg_scale_x = Dbl(width_in_pixels, logical[1]),
            !.xdg_scale_y = Dbl(height_in_pixels, logical[1]),
            !.cached_logical_height = logical[2],
            !.cached_logical_width = logical[1]]

\* "There is no match, let's override the scaling setting on our surface"
InstallOwnScale(s, width_in_pixels, height_in_pixels, logical) ==
  [s EXCEPT !.has_own_scale = 1,
            !.xdg_scale_x = Dbl(width_in_pixels, logical[1]),
            !.xdg_scale_y = Dbl(height_in_pixels, logical[2]),
            !.cached_logical_height = logical[2],
            !.cached_logical_width = logical[1]]

\* "Try once more to do a full cycle (pixel -> logical -> pixel)"
RetestRoundTrip(c, own, width_in_pixels, height_in_pixels) ==
  LET host == sl_transform_guest_to_host(c, own, width_in_pixels,
                                         height_in_pixels)
  IN sl_transform_host_to_guest(c, own, host[1], host[2])

\* "if we aren't equal, we need to force a round up on the translation"
SetRounding(own, again, width_in_pixels, height_in_pixels) ==
  [own EXCEPT
     !.scale_round_on_x = IF again[1] # width_in_pixels THEN TRUE ELSE @,
     !.scale_round_on_y = IF again[2] # height_in_pixels THEN TRUE ELSE @]

\* as sl_transform_try_window_scale, without the legacy-mode return
try_window_scale_any_mode(c, s, width_in_pixels, height_in_pixels) ==
  LET logical == GlobalLogicalSize(c, width_in_pixels, height_in_pixels)
      reverse == GlobalRoundTrip(c, logical)
  IN IF (reverse[1] # width_in_pixels \/ reverse[2] # height_in_pixels)
        /\ (logical[1] > 0 /\ logical[2] > 0)
     THEN
       LET own == InstallOwnScale(s, width_in_pixels, height_in_pixels,
                                  logical)
       IN SetRounding(own,
                      RetestRoundTrip(c, own, width_in_pixels,
                                      height_in_pixels),
                      width_in_pixels, height_in_pixels)
     ELSE sl_transform_reset_surface_scale(c, s)

\* as sl_transform_try_window_scale, the surface left alone when the global
\* factors suffice
try_window_scale_no_reset(c, s, width_in_pixels, height_in_pixels) ==
  IF ~c.use_direct_scale THEN s
  ELSE
    LET logical == GlobalLogicalSize(c, width_in_pixels, height_in_pixels)
        reverse == GlobalRoundTrip(c, logical)
    IN IF (reverse[1] # width_in_pixels \/ reverse[2] # height_in_pixels)
          /\ (logical[1] > 0 /\ logical[2] > 0)
       THEN
         LET own == InstallOwnScale(s, width_in_pixels, height_in_pixels,
                                    logical)
         IN SetRounding(own,
                        RetestRoundTrip(c, own, width_in_pixels,
                                        height_in_pixels),
                        width_in_pixels, height_in_pixels)
       ELSE s

sl_transform_try_window_scale(c, s, width_in_pixels, height_in_pixels) ==
  IF ~c.use_direct_scale THEN s
  ELSE
    LET logical == GlobalLogicalSize(c, width_in_pixels, height_in_pixels)
        reverse == GlobalRoundTrip(c, logical)
    IN IF (reverse[1] # width_in_pixels \/ reverse[2] # height_in_pixels)
          /\ (logical[1] > 0 /\ logical[2] > 0)
       THEN
         LET own == InstallOwnScale(s, width_in_pixels, height_in_pixels,
                                    logical)
         IN SetRounding(own,
                        RetestRoundTrip(c, own, width_in_pixels,
                                        height_in_pixels),
                        width_in_pixels, height_in_pixels)
       ELSE sl_transform_reset_surface_scale(c, s)

\* ------------------------------------------------------------------------
\* Actions: one per entry point
\* ------------------------------------------------------------------------
SurfaceArgs == {surface, NoSurface}

\* coordinates handed to the integer transforms: the small ones of C and the
\* logical size of the window
XCoords(C) == C \cup {surface.cached_logical_width}

YCoords(C) == C \cup {surface.cached_logical_height}

TryWindowScale(D) ==
  \E w \in D, h \in D :
    /\ surface' = sl_transform_try_window_scale(ctx, surface, w, h)
    /\ last' = Call("try_window_scale", TRUE, <<w, h>>, <<>>)
    /\ UNCHANGED ctx

ResetSurfaceScale ==
  /\ surface' = sl_transform_reset_surface_scale(ctx, surface)
  /\ last' = Call("reset_surface_scale", TRUE, <<>>, <<>>)
  /\ UNCHANGED ctx

GuestToHost(C) ==
  \E x \in XCoords(C), y \in YCoords(C), s \in SurfaceArgs :
    /\ last' = Call("guest_to_host", ~IsNull(s), <<x, y>>,
                    sl_transform_guest_to_host(ctx, s, x, y))
    /\ UNCHANGED <<ctx, surface>>

HostToGuest(C) ==
  \E x \in XCoords(C), y \in YCoords(C), s \in SurfaceArgs :
    /\ last' = Call("host_to_guest", ~IsNull(s), <<x, y>>,
                    sl_transform_host_to_guest(ctx, s, x, y))
    /\ UNCHANGED <<ctx, surface>>

GetScaleFactors ==
  \E s \in SurfaceArgs :
    /\ last' = Call("get_scale_factors", ~IsNull(s), <<>>,
                    sl_transform_get_scale_factors(ctx, s))
    /\ UNCHANGED <<ctx, surface>>

HostToGuestFixed ==
  \E x \in FixedCoords, y \in FixedCoords, s \in SurfaceArgs :
    /\ last' = Call("host_to_guest_fixed", ~IsNull(s), <<x, y>>,
                    sl_transform_host_to_guest_fixed(ctx, s, x, y))
    /\ UNCHANGED <<ctx, surface>>

HostToGuestFixedAxis ==
  \E coord \in FixedCoords, axis \in {0, 1}, s \in SurfaceArgs :
    /\ last' = Call("host_to_guest_fixed_axis", ~IsNull(s), <<coord, axis>>,
                    <<sl_transform_host_to_guest_fixed_axis(ctx, s, coord,
                                                            axis)>>)
    /\ UNCHANGED <<ctx, surface>>

GuestToHostFixed ==
  \E x \in FixedCoords, y \in FixedCoords, s \in SurfaceArgs :
    /\ last' = Call("guest_to_host_fixed", ~IsNull(s), <<x, y>>,
                    sl_transform_guest_to_host_fixed(ctx, s, x, y))
    /\ UNCHANGED <<ctx, surface>>

GuestToHostFixedAxis ==
  \E coord \in FixedCoords, axis \in {0, 1}, s \in SurfaceArgs :
    /\ last' = Call("guest_to_host_fixed_axis", ~IsNull(s), <<coord, axis>>,
                    <<sl_transform_guest_to_host_fixed_axis(ctx, s, coord,
                                                            axis)>>)
    /\ UNCHANGED <<ctx, surface>>

\* as ViewportScale, the logical size it computed kept on the surface
viewport_scale_caches_size(C) ==
  \E cs \in ContentsScales, w \in C, h \in C, s \in SurfaceArgs :
    LET r == sl_transform_viewport_scale(ctx, s, cs, w, h)
    IN /\ last' = Call("viewport_scale", ~IsNull(s), <<cs, w, h>>, r)
       /\ surface' = [surface EXCEPT !.cached_logical_width = r[1],
                                     !.cached_logical_height = r[2]]
       /\ UNCHANGED ctx

ViewportScale(C) ==
  \E cs \in ContentsScales, w \in C, h \in C, s \in SurfaceArgs :
    /\ last' = Call("viewport_scale", ~IsNull(s), <<cs, w, h>>,
                    sl_transform_viewport_scale(ctx, s, cs, w, h))
    /\ UNCHANGED <<ctx, surface>>

\* H, V: the horizontal extents <<x1, x2>> and vertical extents <<y1, y2>> of
\* the damage rectangles
DamageCoord(H, V) ==
  \E bx \in BufferScales, by \in BufferScales, h \in H, v \in V :
    /\ last' = Call("damage_coord", TRUE, <<bx, by, h[1], v[1], h[2], v[2]>>,
                    sl_transform_damage_coord(ctx, surface, bx, by,
                                              h[1], v[1], h[2], v[2]))
    /\ UNCHANGED <<ctx, surface>>

OutputDimensions(C) ==
  \E w \in C, h \in C :
    /\ last' = Call("output_dimensions", FALSE, <<w, h>>,
                    sl_transform_output_dimensions(ctx, w, h))
    /\ UNCHANGED <<ctx, surface>>

\* negotiation with the integer transforms
Next ==
  \/ TryWindowScale(Dims)
  \/ ResetSurfaceScale
  \/ GuestToHost(Coords)
  \/ HostToGuest(Coords)
  \/ GetScaleFactors

Spec == Init /\ [][Next]_vars

\* every entry point, negotiation with the large sizes only
LargeDims == (MaxDim - 1)..MaxDim

NextAll ==
  \/ TryWindowScale(LargeDims)
  \/ ResetSurfaceScale
  \/ GuestToHost(UnitCoords)
  \/ HostToGuest(UnitCoords)
  \/ GetScaleFactors
  \/ HostToGuestFixed
  \/ HostToGuestFixedAxis
  \/ GuestToHostFixed
  \/ GuestToHostFixedAxis
  \/ ViewportScale(UnitCoords)
  \/ DamageCoord(UnitExtents, UnitExtents)
  \/ OutputDimensions(UnitCoords)

SpecAll == Init /\ [][NextAll]_vars

\* the sizes handed to to_viewport_size and scale_output: around zero, the
\* largest window size and an even size beyond it
Sizes == UnitCoords \cup {MaxDim, 2 * MaxDim + 2}

\* horizontal extents of damage: around zero, in the window, x1 > x2, at the
\* bounds MIN_SIZE and MAX_SIZE, across them and beyond MAX_SIZE
HExtents ==
  { <<0 - 1, 1>>, <<0, 0>>, <<1, 0>>, <<MaxDim - 1, MaxDim>>,
    <<MIN_SIZE, MAX_SIZE>>, <<MIN_SIZE - 1, MAX_SIZE + 1>>,
    <<MAX_SIZE + 1, MAX_SIZE + MaxDim>> }

VExtents ==
  { <<0 - 1, 1>>, <<0, MaxDim>>, <<MIN_SIZE - MaxDim, MIN_SIZE - 1>> }

\* negotiation with the transforms of sizes and of damage rectangles
NextSizes ==
  \/ TryWindowScale(LargeDims)
  \/ ResetSurfaceScale
  \/ ViewportScale(Sizes)
  \/ DamageCoord(HExtents, VExtents)
  \/ OutputDimensions(Sizes)

SpecSizes == Init /\ [][NextSizes]_vars

\* ------------------------------------------------------------------------
\* Properties
\* ------------------------------------------------------------------------
Negotiated == last.op = "try_window_scale"

\* the size the last negotiation was asked for
ReqW == last.args[1]

ReqH == last.args[2]

\* trunc(w / default_scale): the logical size by the global factors
LogicalW == DivTrunc(ReqW, ctx.xdg_scale_x)

LogicalH == DivTrunc(ReqH, ctx.xdg_scale_y)

\* the logical size taken back to pixels by the global factors is the request
GlobalExact ==
  /\ MulTrunc(LogicalW, ctx.xdg_scale_x) = ReqW
  /\ MulTrunc(LogicalH, ctx.xdg_scale_y) = ReqH

\* guest -> host -> guest of (w, h) with the surface s
RoundTrip(s, w, h) ==
  LET host == sl_transform_guest_to_host(ctx, s, w, h)
  IN sl_transform_host_to_guest(ctx, s, host[1], host[2])

IsZero(a) == a.n = 0

\* C1: in direct mode, after a negotiation for a positive size (w, h) whose
\* logical size by the global factors is positive on both axes, guest_to_host
\* followed by host_to_guest of (w, h) with the surface gives (w, h) again.
C1_RoundTripAfterNegotiation ==
  (Negotiated /\ ctx.use_direct_scale /\ ReqW > 0 /\ ReqH > 0
   /\ LogicalW > 0 /\ LogicalH > 0)
  => RoundTrip(surface, ReqW, ReqH) = <<ReqW, ReqH>>

\* C2: in direct mode, when the round trip by the global factors misses the
\* request on at least one axis and the logical size is positive, the
\* negotiation leaves the override width/logical on both axes and caches the
\* logical size.
C2_OverrideInstalled ==
  (Negotiated /\ ctx.use_direct_scale /\ ~GlobalExact
   /\ LogicalW > 0 /\ LogicalH > 0)
  => /\ surface.has_own_scale = 1
     /\ DblEq(surface.xdg_scale_x, Dbl(ReqW, LogicalW))
     /\ DblEq(surface.xdg_scale_y, Dbl(ReqH, LogicalH))
     /\ surface.cached_logical_width = LogicalW
     /\ surface.cached_logical_height = LogicalH

\* an override was installed although one axis was exact by the global factor
C2_Witness ==
  /\ Negotiated /\ ctx.use_direct_scale /\ surface.has_own_scale = 1
  /\ MulTrunc(LogicalW, ctx.xdg_scale_x) = ReqW
  /\ MulTrunc(LogicalH, ctx.xdg_scale_y) # ReqH
  /\ surface.xdg_scale_x = Dbl(ReqW, LogicalW)

\* the surface with both rounding flags cleared
FlagsCleared(s) ==
  [s EXCEPT !.scale_round_on_x = FALSE, !.scale_round_on_y = FALSE]

\* C3: after a negotiation that installed an override, a rounding flag is set
\* only if the round trip with the new override and cleared flags missed the
\* requested size on that axis.
C3_FlagsOnlyFromRetest ==
  (Negotiated /\ ctx.use_direct_scale /\ surface.has_own_scale = 1)
  => LET again == RoundTrip(FlagsCleared(surface), ReqW, ReqH)
     IN /\ surface.scale_round_on_x => again[1] # ReqW
        /\ surface.scale_round_on_y => again[2] # ReqH

\* C4: in direct mode, when the round trip by the global factors is exact, or
\* the logical width or height is not positive, the negotiation leaves the
\* surface without override: scales 0, flags false.
C4_ResetWhenGlobalSuffices ==
  (Negotiated /\ ctx.use_direct_scale
   /\ (GlobalExact \/ LogicalW <= 0 \/ LogicalH <= 0))
  => /\ surface.has_own_scale = 0
     /\ IsZero(surface.xdg_scale_x) /\ IsZero(surface.xdg_scale_y)
     /\ ~surface.scale_round_on_x /\ ~surface.scale_round_on_y

\* a negotiation reset a surface that an earlier negotiation had overridden
C4_Witness ==
  /\ Negotiated /\ ctx.use_direct_scale
  /\ GlobalExact /\ LogicalW > 0 /\ LogicalH > 0
  /\ surface.has_own_scale = 0 /\ surface.cached_logical_width > 0

\* C5: in legacy mode a negotiation changes nothing of the surface.
C5_LegacyNegotiationNoOp ==
  [][(last'.op = "try_window_scale" /\ ~ctx.use_direct_scale)
     => surface' = surface]_vars

\* a legacy-mode negotiation for a size the legacy scale does not divide
C5_Witness ==
  /\ Negotiated /\ ~ctx.use_direct_scale
  /\ MulTrunc(DivTrunc(ReqW, ctx.scale), ctx.scale) # ReqW
  /\ DivTrunc(ReqW, ctx.scale) > 0 /\ DivTrunc(ReqH, ctx.scale) > 0

\* C6: after a reset the surface has no override, scales 0 and flags false,
\* and a second reset leaves it as it is.
C6_ResetNeutralIdempotent ==
  last.op = "reset_surface_scale"
  => /\ surface.has_own_scale = 0
     /\ IsZero(surface.xdg_scale_x) /\ IsZero(surface.xdg_scale_y)
     /\ ~surface.scale_round_on_x /\ ~surface.scale_round_on_y
     /\ sl_transform_reset_surface_scale(ctx, surface) = surface

\* a reset of a surface that a negotiation had overridden
C6_Witness ==
  /\ last.op = "reset_surface_scale"
  /\ surface.cached_logical_width > 0 /\ surface.has_own_scale = 0

HasOverride == last.surf /\ ctx.use_direct_scale /\ surface.has_own_scale = 1

\* C7 as stated: the factors are the override's when direct mode is active
\* and the surface is non-null with an override, else the defaults in direct
\* mode and (legacy_scale, legacy_scale) in legacy mode.
C7_ResolveAsStated ==
  last.op = "get_scale_factors"
  => last.res = (IF HasOverride
                 THEN <<surface.xdg_scale_x, surface.xdg_scale_y>>
                 ELSE IF ctx.use_direct_scale
                 THEN <<ctx.xdg_scale_x, ctx.xdg_scale_y>>
                 ELSE <<ctx.scale, ctx.scale>>)

\* C7 amended: the factors are the override's when direct mode is active and
\* the surface is non-null with an override, else (default_scale_x,
\* default_scale_y) in direct and in legacy mode.
C7_ResolveDefaults ==
  last.op = "get_scale_factors"
  => last.res = (IF HasOverride
                 THEN <<surface.xdg_scale_x, surface.xdg_scale_y>>
                 ELSE <<ctx.xdg_scale_x, ctx.xdg_scale_y>>)

\* the factors of a surface whose override differs on the two axes
C7_Witness ==
  /\ last.op = "get_scale_factors" /\ HasOverride
  /\ ~DblEq(surface.xdg_scale_x, surface.xdg_scale_y)
  /\ ~DblEq(surface.xdg_scale_x, ctx.xdg_scale_x)

\* r is x*f cut toward zero, f the double nearest to f.n/f.d: r lies between
\* 0 and x*f, less than one unit (and the rounding of f) away from it
IsTruncOf(r, x, f) ==
  /\ Sgn(r) = Sgn(x) \/ r = 0
  /\ Abs(r) * f.d <= Abs(x) * f.n
  /\ Abs(x) * f.n <= (Abs(r) + 1) * f.d

\* r is x*f rounded to nearest
IsRoundOf(r, x, f) ==
  /\ Sgn(r) = Sgn(x) \/ r = 0
  /\ 2 * Abs(x) * f.n <= (2 * Abs(r) + 1) * f.d
  /\ (2 * Abs(r) - 1) * f.d <= 2 * Abs(x) * f.n

\* the factors of the last call, by the contract of resolve()
Factors ==
  IF HasOverride THEN <<surface.xdg_scale_x, surface.xdg_scale_y>>
  ELSE <<ctx.xdg_scale_x, ctx.xdg_scale_y>>

\* C8: host_to_guest in direct mode multiplies each axis by its factor and
\* rounds to nearest if the surface is non-null and the axis's flag is set,
\* else truncates toward zero; in legacy mode it multiplies by legacy_scale.
C8_HostToGuest ==
  last.op = "host_to_guest"
  => IF ctx.use_direct_scale
     THEN /\ last.res[1] = (IF last.surf /\ surface.scale_round_on_x
                            THEN MulRound(last.args[1], Factors[1])
                            ELSE MulTrunc(last.args[1], Factors[1]))
          /\ last.res[2] = (IF last.surf /\ surface.scale_round_on_y
                            THEN MulRound(last.args[2], Factors[2])
                            ELSE MulTrunc(last.args[2], Factors[2]))
          /\ IF last.surf /\ surface.scale_round_on_x
             THEN IsRoundOf(last.res[1], last.args[1], Factors[1])
             ELSE IsTruncOf(last.res[1], last.args[1], Factors[1])
          /\ IF last.surf /\ surface.scale_round_on_y
             THEN IsRoundOf(last.res[2], last.args[2], Factors[2])
             ELSE IsTruncOf(last.res[2], last.args[2], Factors[2])
     ELSE /\ last.res = <<MulTrunc(last.args[1], ctx.scale),
                          MulTrunc(last.args[2], ctx.scale)>>
          /\ IsTruncOf(last.res[1], last.args[1], ctx.scale)
          /\ IsTruncOf(last.res[2], last.args[2], ctx.scale)

\* host_to_guest rounded one axis up and truncated the other
C8_Witness ==
  /\ last.op = "host_to_guest" /\ HasOverride
  /\ surface.scale_round_on_x /\ ~surface.scale_round_on_y
  /\ last.res[1] # MulTrunc(last.args[1], Factors[1])
  /\ last.res[2] # MulRound(last.args[2], Factors[2])

\* x / s cut toward zero, s a positive integer
TruncDiv(x, s) == Sgn(x) * (Abs(x) \div s)

\* C9: in legacy mode with an integer legacy_scale s, guest_to_host cuts x/s
\* toward zero and host_to_guest gives x*s; guest_to_host undoes host_to_guest
\* and host_to_guest undoes guest_to_host on multiples of s.
C9_LegacyIntegerScale ==
  (~ctx.use_direct_scale /\ ctx.scale.d = 1)
  => LET s == ctx.scale.n
         x == last.args[1]
         y == last.args[2]
     IN /\ last.op = "guest_to_host"
           => /\ last.res = <<TruncDiv(x, s), TruncDiv(y, s)>>
              /\ (x % s = 0 /\ y % s = 0)
                 => sl_transform_host_to_guest(ctx, NoSurface, last.res[1],
                                               last.res[2]) = <<x, y>>
        /\ last.op = "host_to_guest"
           => /\ last.res = <<x * s, y * s>>
              /\ sl_transform_guest_to_host(ctx, NoSurface, last.res[1],
                                            last.res[2]) = <<x, y>>

\* guest_to_host of multiples of the legacy scale 2
C9_Witness ==
  /\ ~ctx.use_direct_scale /\ ctx.scale = Dbl(2, 1)
  /\ last.op = "guest_to_host"
  /\ last.args = <<2, 0 - 2>> /\ last.res = <<1, 0 - 1>>

\* legacy_scale 1 in legacy mode, default scales 1 in direct mode, and no
\* override on the surface
ScaleOne ==
  /\ IF ctx.use_direct_scale
     THEN ctx.xdg_scale_x = Dbl(1, 1) /\ ctx.xdg_scale_y = Dbl(1, 1)
     ELSE ctx.scale = Dbl(1, 1)
  /\ surface.has_own_scale = 0

TwoAxisOps ==
  {"guest_to_host", "host_to_guest", "guest_to_host_fixed",
   "host_to_guest_fixed"}

OneAxisOps == {"guest_to_host_fixed_axis", "host_to_guest_fixed_axis"}

\* the integer and fixed-point transforms returned their input
CoordinatesUnchanged ==
  /\ last.op \in TwoAxisOps => last.res = last.args
  /\ last.op \in OneAxisOps => last.res = <<last.args[1]>>

\* C10 as stated: at scale 1 without override every transform returns its
\* input: the coordinate transforms, to_viewport_size (contents scale 1),
\* scale_output and to_host_damage with buffer scale 1.
C10_AllIdentityAsStated ==
  ScaleOne
  => /\ CoordinatesUnchanged
     /\ (last.op = "viewport_scale" /\ last.args[1] = 1)
        => <<last.res[1], last.res[2]>> = <<last.args[2], last.args[3]>>
     /\ last.op = "output_dimensions" => last.res = last.args
     /\ (last.op = "damage_coord" /\ last.args[1] = 1 /\ last.args[2] = 1)
        => last.res = <<last.args[3], last.args[4], last.args[5],
                        last.args[6]>>

AtLeastOne(v) == IF v <= 0 THEN 1 ELSE v

\* C10 amended: at scale 1 without override the integer and fixed-point
\* transforms return their input; to_viewport_size returns its input in
\* legacy mode with contents scale 1 and in direct mode returns each
\* dimension, or 1 if the dimension is not positive; scale_output returns its
\* input when legacy_scale is 1; to_host_damage with buffer scale 1 returns
\* its input in direct mode and, in legacy mode, the rectangle outset by one
\* as long as that stays within [MIN_SIZE, MAX_SIZE].
C10_IdentityAtScaleOne ==
  ScaleOne
  => /\ CoordinatesUnchanged
     /\ last.op = "viewport_scale"
        => IF ctx.use_direct_scale
           THEN <<last.res[1], last.res[2]>>
                  = <<AtLeastOne(last.args[2]), AtLeastOne(last.args[3])>>
           ELSE last.args[1] = 1
                => <<last.res[1], last.res[2]>>
                     = <<last.args[2], last.args[3]>>
     /\ (last.op = "output_dimensions" /\ ctx.scale = Dbl(1, 1))
        => last.res = last.args
     /\ (last.op = "damage_coord" /\ last.args[1] = 1 /\ last.args[2] = 1)
        => IF ctx.use_direct_scale
           THEN last.res = <<last.args[3], last.args[4], last.args[5],
                             last.args[6]>>
           ELSE (/\ last.args[3] - 1 >= MIN_SIZE /\ last.args[4] - 1 >= MIN_SIZE
                 /\ last.args[5] + 1 <= MAX_SIZE /\ last.args[6] + 1 <= MAX_SIZE)
                => last.res = <<last.args[3] - 1, last.args[4] - 1,
                                last.args[5] + 1, last.args[6] + 1>>

\* a direct-mode viewport of a size that is not positive on one axis
C10_Witness ==
  /\ ScaleOne /\ ctx.use_direct_scale
  /\ last.op = "viewport_scale"
  /\ last.args[2] <= 0 /\ last.args[3] > 0
  /\ last.res = <<1, last.args[3], TRUE>>

\* the surface argument of the last call
LastSurface == IF last.surf THEN surface ELSE NoSurface

\* C11: in direct mode to_viewport_size returns no dimension <= 0: each
\* returned dimension is the larger of 1 and guest_to_host of that dimension
\* with the factors of the call's surface, and the apply_viewport flag is true.
C11_ViewportFloor ==
  (last.op = "viewport_scale" /\ ctx.use_direct_scale)
  => LET host == sl_transform_guest_to_host(ctx, LastSurface, last.args[2],
                                            last.args[3])
     IN /\ last.res[1] > 0 /\ last.res[2] > 0
        /\ last.res[1] = Max(1, host[1])
        /\ last.res[2] = Max(1, host[2])
        /\ last.res[3] = TRUE

\* a width of one pixel whose logical width is 0 became 1, next to a height
\* whose logical height the override decides
C11_Witness ==
  /\ last.op = "viewport_scale" /\ HasOverride
  /\ last.args[2] = 1 /\ last.args[3] > 1
  /\ DivTrunc(last.args[2], Factors[1]) = 0
  /\ last.res[1] = 1 /\ last.res[2] > 1
  /\ last.res[2] # DivTrunc(last.args[3], ctx.xdg_scale_y)

\* v / s cut toward zero and rounded up, s the rational s.n / s.d > 0
TruncQuot(v, s) == Sgn(v) * ((Abs(v) * s.d) \div s.n)

CeilQuot(v, s) ==
  IF v > 0 THEN (v * s.d + s.n - 1) \div s.n
  ELSE 0 - (((0 - v) * s.d) \div s.n)

\* legacy_scale * buffer_scale of the last to_host_damage call, per axis
LegacyDamageScaleX == Dbl(ctx.scale.n * last.args[1], ctx.scale.d)

LegacyDamageScaleY == Dbl(ctx.scale.n * last.args[2], ctx.scale.d)

\* v brought into [MIN_SIZE, MAX_SIZE]
Clamped(v) == Max(MIN_SIZE, Min(v, MAX_SIZE))

\* C12 as stated: in legacy mode to_host_damage divides by legacy_scale *
\* buffer_scale; the rectangle is first clamped into [MIN_SIZE, MAX_SIZE] and
\* then outset by one pixel; the top-left quotient is cut toward zero and the
\* bottom-right one rounded up.
C12_ClampThenOutset ==
  (last.op = "damage_coord" /\ ~ctx.use_direct_scale)
  => last.res = <<TruncQuot(Clamped(last.args[3]) - 1, LegacyDamageScaleX),
                  TruncQuot(Clamped(last.args[4]) - 1, LegacyDamageScaleY),
                  CeilQuot(Clamped(last.args[5]) + 1, LegacyDamageScaleX),
                  CeilQuot(Clamped(last.args[6]) + 1, LegacyDamageScaleY)>>

\* C12 amended: in legacy mode to_host_damage divides by legacy_scale *
\* buffer_scale; the rectangle is first outset by one pixel, then the
\* decremented top-left corner is kept from falling below MIN_SIZE and the
\* incremented bottom-right corner from exceeding MAX_SIZE; the top-left
\* quotient is cut toward zero and the bottom-right one rounded up.
C12_OutsetThenBound ==
  (last.op = "damage_coord" /\ ~ctx.use_direct_scale)
  => last.res = <<TruncQuot(Max(MIN_SIZE, last.args[3] - 1),
                            LegacyDamageScaleX),
                  TruncQuot(Max(MIN_SIZE, last.args[4] - 1),
                            LegacyDamageScaleY),
                  CeilQuot(Min(last.args[5] + 1, MAX_SIZE),
                           LegacyDamageScaleX),
                  CeilQuot(Min(last.args[6] + 1, MAX_SIZE),
                           LegacyDamageScaleY)>>

\* a legacy rectangle whose left edge is at MIN_SIZE and whose vertical
\* extent -1..1 becomes 0..1 by the scale 4: -2/4 cut to 0, 2/4 raised to 1
C12_Witness ==
  /\ last.op = "damage_coord" /\ ~ctx.use_direct_scale
  /\ last.args[3] = MIN_SIZE
  /\ last.res[1] = TruncQuot(MIN_SIZE, LegacyDamageScaleX)
  /\ LegacyDamageScaleY = Dbl(4, 1)
  /\ last.args[4] = 0 - 1 /\ last.args[6] = 1
  /\ last.res[2] = 0 /\ last.res[4] = 1

\* r is x / f cut toward zero, f the double nearest to f.n / f.d
IsTruncQuotOf(r, x, f) ==
  /\ Sgn(r) = Sgn(x) \/ r = 0
  /\ Abs(r) * f.n <= Abs(x) * f.d
  /\ Abs(x) * f.d <= (Abs(r) + 1) * f.n

\* the legacy configuration whose legacy_scale is the double s
LegacyTwin(s) == Context(FALSE, s, ctx.xdg_scale_x, ctx.xdg_scale_y)

\* C13: in direct mode to_host_damage gives each of the four coordinates
\* divided by (factor of the surface * buffer scale) and cut toward zero,
\* without outset and without clamp; with the same rectangle and a legacy
\* scale equal to the direct factors, the legacy result is the outset one.
C13_DirectDamagePlain ==
  (last.op = "damage_coord" /\ ctx.use_direct_scale)
  => LET sx == DblScale(Factors[1], last.args[1])
         sy == DblScale(Factors[2], last.args[2])
     IN /\ last.res = <<DivTrunc(last.args[3], sx), DivTrunc(last.args[4], sy),
                        DivTrunc(last.args[5], sx), DivTrunc(last.args[6], sy)>>
        /\ IsTruncQuotOf(last.res[1], last.args[3], sx)
        /\ IsTruncQuotOf(last.res[2], last.args[4], sy)
        /\ IsTruncQuotOf(last.res[3], last.args[5], sx)
        /\ IsTruncQuotOf(last.res[4], last.args[6], sy)
        /\ (~HasOverride /\ DblEq(Factors[1], Factors[2]))
           => sl_transform_damage_coord(LegacyTwin(Factors[1]), surface,
                                        last.args[1], last.args[2],
                                        last.args[3], last.args[4],
                                        last.args[5], last.args[6])
              = <<TruncQuot(Max(MIN_SIZE, last.args[3] - 1), sx),
                  TruncQuot(Max(MIN_SIZE, last.args[4] - 1), sy),
                  CeilQuot(Min(last.args[5] + 1, MAX_SIZE), sx),
                  CeilQuot(Min(last.args[6] + 1, MAX_SIZE), sy)>>

\* a direct-mode rectangle of a surface with override: the extent -1..1
\* collapses to 0..0 by buffer scale 2, and a right edge beyond MAX_SIZE stays
\* beyond the quotient of MAX_SIZE
C13_Witness ==
  /\ last.op = "damage_coord" /\ HasOverride
  /\ last.args[2] = 2 /\ last.args[4] = 0 - 1 /\ last.args[6] = 1
  /\ last.res[2] = 0 /\ last.res[4] = 0
  /\ last.args[5] > MAX_SIZE
  /\ last.res[3] > DivTrunc(MAX_SIZE, DblScale(Factors[1], last.args[1]))

\* the scale configurations with the legacy_scale of ctx
SameLegacyScale == {c \in Contexts : c.scale = ctx.scale}

\* C14: scale_output gives (width * legacy_scale, height * legacy_scale), the
\* products cut to integers, in direct and in legacy mode: the result is the
\* same for every mode and every default factors, and no surface enters it.
C14_ScaleOutput ==
  last.op = "output_dimensions"
  => /\ IsTruncOf(last.res[1], last.args[1], ctx.scale)
     /\ IsTruncOf(last.res[2], last.args[2], ctx.scale)
     /\ ctx.scale.d = 1
        => last.res = <<last.args[1] * ctx.scale.n,
                        last.args[2] * ctx.scale.n>>
     /\ \A c \in SameLegacyScale :
          sl_transform_output_dimensions(c, last.args[1], last.args[2])
            = last.res

\* direct mode with legacy_scale 2, other direct factors and an override on
\* the surface: the sizes are doubled
C14_Witness ==
  /\ last.op = "output_dimensions" /\ ctx.use_direct_scale
  /\ ctx.scale = Dbl(2, 1) /\ ~DblEq(ctx.xdg_scale_x, ctx.scale)
  /\ surface.has_own_scale = 1
  /\ last.args = <<MaxDim, 2 * MaxDim + 2>>
  /\ last.res = <<2 * MaxDim, 4 * MaxDim + 4>>

\* the round trip of the requested size by the global factors misses it
DriftsOnX == MulTrunc(LogicalW, ctx.xdg_scale_x) # ReqW

DriftsOnY == MulTrunc(LogicalH, ctx.xdg_scale_y) # ReqH

\* C15: in direct mode, after the negotiation of a size with positive logical
\* size whose round trip by the global factors drifts on an axis, the rounding
\* flag of that axis is set and guest_to_host followed by host_to_guest of the
\* size with the surface gives the size again on that axis.
C15_RoundingCorrection ==
  (Negotiated /\ ctx.use_direct_scale /\ LogicalW > 0 /\ LogicalH > 0)
  => /\ DriftsOnX => /\ surface.scale_round_on_x
                     /\ RoundTrip(surface, ReqW, ReqH)[1] = ReqW
     /\ DriftsOnY => /\ surface.scale_round_on_y
                     /\ RoundTrip(surface, ReqW, ReqH)[2] = ReqH

Positive(a) == a.n > 0 /\ a.d > 0

\* C16: a surface without override has both override scales 0 and both
\* rounding flags false; a surface with override has both override scales and
\* the cached logical width and height positive; the factors resolved for the
\* surface and for a null surface are positive.
C16_OverrideInvariant ==
  /\ surface.has_own_scale \in {0, 1}
  /\ surface.has_own_scale = 0
     => /\ IsZero(surface.xdg_scale_x) /\ IsZero(surface.xdg_scale_y)
        /\ ~surface.scale_round_on_x /\ ~surface.scale_round_on_y
  /\ surface.has_own_scale = 1
     => /\ Positive(surface.xdg_scale_x) /\ Positive(surface.xdg_scale_y)
        /\ surface.cached_logical_width > 0
        /\ surface.cached_logical_height > 0
  /\ \A s \in SurfaceArgs :
       /\ Positive(sl_transform_get_scale_factors(ctx, s)[1])
       /\ Positive(sl_transform_get_scale_factors(ctx, s)[2])
  /\ last.op = "get_scale_factors"
     => Positive(last.res[1]) /\ Positive(last.res[2])

\* the negotiation of a size that is not positive took the override, set with
\* a rounding flag by an earlier negotiation, off the surface again
C16_Witness ==
  /\ Negotiated /\ ctx.use_direct_scale
  /\ ReqW <= 0 /\ ReqH > 1
  /\ surface.has_own_scale = 0 /\ surface.cached_logical_width > 0
  /\ RoundTrip(surface, MaxDim, MaxDim) # <<MaxDim, MaxDim>>

WritersOfSurface == {"try_window_scale", "reset_surface_scale"}

\* C17: a step of any operation other than negotiate and reset leaves the
\* override record of the surface (override present, scales, rounding flags,
\* cached logical size) as it is, and no step changes the scale configuration.
C17_OnlyNegotiationWrites ==
  [][/\ last'.op \notin WritersOfSurface => surface' = surface
     /\ ctx' = ctx]_vars

\* a damage transform read a surface whose override a negotiation had set
C17_Witness ==
  /\ last.op = "damage_coord" /\ HasOverride
  /\ surface.scale_round_on_x
  /\ last.res # <<last.args[3], last.args[4], last.args[5], last.args[6]>>

\* C18: in legacy mode the rectangle given by to_host_damage for a rectangle
\* with x1 <= x2 and y1 <= y2 covers it: res.x1 <= x1/sx, res.y1 <= y1/sy,
\* res.x2 >= x2/sx, res.y2 >= y2/sy, and res.x1 <= res.x2, res.y1 <= res.y2.
C18_LegacyDamageCovers ==
  (last.op = "damage_coord" /\ ~ctx.use_direct_scale
   /\ last.args[3] <= last.args[5] /\ last.args[4] <= last.args[6])
  => LET sx == LegacyDamageScaleX
         sy == LegacyDamageScaleY
     IN /\ last.res[1] * sx.n <= last.args[3] * sx.d
        /\ last.res[2] * sy.n <= last.args[4] * sy.d
        /\ last.res[3] * sx.n >= last.args[5] * sx.d
        /\ last.res[4] * sy.n >= last.args[6] * sy.d
        /\ last.res[1] <= last.res[3]
        /\ last.res[2] <= last.res[4]

====
